---- MODULE Spec2Model ----
(***************************************************************************)
(* A model of parallel_translation.py: the text normalizer fix_encoding    *)
(* and the curses editor ScrollableTextbox (line buffer, cursor, scroll    *)
(* position, key dispatch loop of edit()).                                 *)
(*                                                                         *)
(* A character is its code point (chr(ch) of the dispatcher is the code   *)
(* point ch itself); a Python str is a sequence of code points; a list of *)
(* str is a sequence of such sequences.  Python indices are 0-based, so   *)
(* lines[i] of the source is lines[i + 1] here.                           *)
(***************************************************************************)
EXTENDS Integers, Sequences, FiniteSets, TLC

VARIABLES
    lines,          \* self.lines
    current_line,   \* self.current_line
    current_col,    \* self.current_col
    scroll_pos,     \* self.scroll_pos
    height,         \* self.height
    avail_rows,     \* rows the terminal leaves the editor: getmaxyx()[0] - self.y - 1
    instructions,   \* text shown by self.instructions_win
    ch,             \* the local ch of edit(): the last key read (0 before any read)
    pc,             \* where the program is: idle, redraw, try, napms, raised
    outcome,        \* how the last API call ended: none, returned, KeyboardInterrupt
    result,         \* the string edit() returned
    interrupted,    \* a KeyboardInterrupt was delivered during this edit() call
    hist,           \* the last insert (and a backspace right after it), with the state before it
    fx_arg,         \* the argument of the function called on its own (fix_encoding, ...)
    fx_ret          \* the values it returned, in call order

vars == <<lines, current_line, current_col, scroll_pos, height, avail_rows,
          instructions, ch, pc, outcome, result, interrupted, hist, fx_arg, fx_ret>>

edvars == <<lines, current_line, current_col, scroll_pos, height, avail_rows,
            instructions, ch, pc, outcome, result, interrupted, hist>>

(* ------------------------------ bounds -------------------------------- *)

\* Longest buffer text (characters plus line breaks) the key source types.
MaxText == 3
\* Longest string set_text is called with.
MaxSetText == 2
\* Largest viewport height an editor is constructed with.
MaxHeight == 2
\* Largest number of rows a terminal offers the editor.
MaxAvail == 2
\* Longest argument handed to fix_encoding.
MaxFixLen == 3
\* Longest text handed to parse_character_dialogue.
MaxParseLen == 6
\* Most entries in a dialogue list handed to generate_latex.
MaxDialogues == 5
\* Longest argument handed to escape_latex_special_chars on its own.
MaxEscapeLen == 2
\* Longest text in the buffer when a single key is dispatched on its own.
MaxKeyText == 4

(* ---------------------------- key codes ------------------------------- *)

CTRL_G == 7
TAB == 9
ENTER == 10
CTRL_V == 22
DEL == 127
KEY_DOWN == 258
KEY_UP == 259
KEY_LEFT == 260
KEY_RIGHT == 261
KEY_HOME == 262
KEY_BACKSPACE == 263
KEY_DC == 330
KEY_NPAGE == 338
KEY_PPAGE == 339
KEY_END == 360
KEY_RESIZE == 410

\* Code points: the line break, and the characters the key source types.
NL == 10
A_TILDE == 195
INV_EXCL == 161

Min(a, b) == IF a < b THEN a ELSE b
Max(a, b) == IF a > b THEN a ELSE b

(* --------------------------- str operations --------------------------- *)

\* text.split('\n')
RECURSIVE split(_)
split(text) ==
    IF \A i \in 1..Len(text) : text[i] # NL
    THEN <<text>>
    ELSE LET k == CHOOSE i \in 1..Len(text) :
                      text[i] = NL /\ \A j \in 1..(i - 1) : text[j] # NL
         IN  <<SubSeq(text, 1, k - 1)>> \o split(SubSeq(text, k + 1, Len(text)))

\* '\n'.join(ls)
RECURSIVE join(_)
join(ls) ==
    IF Len(ls) = 0 THEN <<>>
    ELSE IF Len(ls) = 1 THEN ls[1]
    ELSE ls[1] \o <<NL>> \o join(Tail(ls))

\* text.replace(wrong, correct): non-overlapping occurrences, left to right
RECURSIVE replace(_, _, _)
replace(text, wrong, correct) ==
    LET starts == { p \in 1..(Len(text) - Len(wrong) + 1) :
                      SubSeq(text, p, p + Len(wrong) - 1) = wrong }
    IN  IF starts = {} THEN text
        ELSE LET first == CHOOSE p \in starts : \A q \in starts : p <= q
             IN  SubSeq(text, 1, first - 1) \o correct
                 \o replace(SubSeq(text, first + Len(wrong), Len(text)), wrong, correct)

(* ---------------------------- fix_encoding ---------------------------- *)

\* The dict encoding_fixes in insertion order, each entry <<wrong, correct>>.
encoding_fixes ==
    << << <<195, 161>>, <<225>> >>,
       << <<195, 169>>, <<233>> >>,
       << <<195, 173>>, <<237>> >>,
       << <<195, 179>>, <<243>> >>,
       << <<195, 186>>, <<250>> >>,
       << <<195, 177>>, <<241>> >>,
       << <<195>>,      <<237>> >>,
       << <<194, 161>>, <<161>> >>,
       << <<194, 191>>, <<191>> >>,
       << <<195, 129>>, <<193>> >>,
       << <<195, 137>>, <<201>> >>,
       << <<195, 141>>, <<205>> >>,
       << <<195, 147>>, <<211>> >>,
       << <<195, 154>>, <<218>> >>,
       << <<195, 145>>, <<209>> >> >>

\* The loop "for wrong, correct in encoding_fixes.items()" from entry i on
\* (an empty text has nothing left to replace).
RECURSIVE apply_fixes(_, _)
apply_fixes(text, i) ==
    IF i > Len(encoding_fixes) \/ text = <<>> THEN text
    ELSE apply_fixes(replace(text, encoding_fixes[i][1], encoding_fixes[i][2]), i + 1)

fix_encoding(text) == apply_fixes(text, 1)

(* ------------------------- ScrollableTextbox -------------------------- *)

\* The fields of self that the editing methods read and write.
Self ==
    [lines |-> lines, current_line |-> current_line, current_col |-> current_col,
     scroll_pos |-> scroll_pos, height |-> height]

\* self.lines[i]
Line(self, i) == self.lines[i + 1]

\* current[a:b] for 0 <= a, b
Slice(s, a, b) == SubSeq(s, a + 1, Min(b, Len(s)))

\* A faulty variant of _adjust_scroll: scrolling down stops one line short of the cursor.
_adjust_scroll_short(self) ==
    IF self.current_line < self.scroll_pos
    THEN [self EXCEPT !.scroll_pos = self.current_line]
    ELSE IF self.current_line >= self.scroll_pos + self.height
    THEN [self EXCEPT !.scroll_pos = self.current_line - self.height]
    ELSE self

\* A faulty variant of _adjust_scroll: scrolling down puts the cursor line at the top.
_adjust_scroll_top(self) ==
    IF self.current_line < self.scroll_pos
    THEN [self EXCEPT !.scroll_pos = self.current_line]
    ELSE IF self.current_line >= self.scroll_pos + self.height
    THEN [self EXCEPT !.scroll_pos = self.current_line]
    ELSE self

_adjust_scroll(self) ==
    IF self.current_line < self.scroll_pos
    THEN [self EXCEPT !.scroll_pos = self.current_line]
    ELSE IF self.current_line >= self.scroll_pos + self.height
    THEN [self EXCEPT !.scroll_pos = self.current_line - self.height + 1]
    ELSE self

\* A faulty variant of _move_up: the column is not clamped to the destination line.
_move_up_unclamped(self) ==
    IF self.current_line > 0
    THEN [self EXCEPT !.current_line = self.current_line - 1]
    ELSE self

_move_up(self) ==
    IF self.current_line > 0
    THEN LET l == self.current_line - 1
         IN  [self EXCEPT !.current_line = l,
                          !.current_col = Min(self.current_col, Len(Line(self, l)))]
    ELSE self

\* A faulty variant of _move_down: the column is not clamped to the destination line.
_move_down_unclamped(self) ==
    IF self.current_line < Len(self.lines) - 1
    THEN [self EXCEPT !.current_line = self.current_line + 1]
    ELSE self

_move_down(self) ==
    IF self.current_line < Len(self.lines) - 1
    THEN LET l == self.current_line + 1
         IN  [self EXCEPT !.current_line = l,
                          !.current_col = Min(self.current_col, Len(Line(self, l)))]
    ELSE self

\* A faulty variant of _move_left: from column 0 the cursor goes to the start of the previous line.
_move_left_to_start(self) ==
    IF self.current_col > 0
    THEN [self EXCEPT !.current_col = self.current_col - 1]
    ELSE IF self.current_line > 0
    THEN [self EXCEPT !.current_line = self.current_line - 1, !.current_col = 0]
    ELSE self

_move_left(self) ==
    IF self.current_col > 0
    THEN [self EXCEPT !.current_col = self.current_col - 1]
    ELSE IF self.current_line > 0
    THEN [self EXCEPT !.current_line = self.current_line - 1,
                      !.current_col = Len(Line(self, self.current_line - 1))]
    ELSE self

_move_right(self) ==
    IF self.current_col < Len(Line(self, self.current_line))
    THEN [self EXCEPT !.current_col = self.current_col + 1]
    ELSE IF self.current_line < Len(self.lines) - 1
    THEN [self EXCEPT !.current_line = self.current_line + 1, !.current_col = 0]
    ELSE self

_move_home(self) == [self EXCEPT !.current_col = 0]

_move_end(self) == [self EXCEPT !.current_col = Len(Line(self, self.current_line))]

_page_up(self) ==
    LET l == Max(0, self.current_line - self.height)
    IN  [self EXCEPT !.current_line = l,
                     !.scroll_pos = Max(0, self.scroll_pos - self.height),
                     !.current_col = Min(self.current_col, Len(Line(self, l)))]

\* A faulty variant of _page_down: the cursor goes down one line, not one page.
_page_down_by_one(self) ==
    LET l == Min(Len(self.lines) - 1, self.current_line + 1)
    IN  [self EXCEPT !.current_line = l,
                     !.scroll_pos = Min(Len(self.lines) - 1, self.scroll_pos + self.height),
                     !.current_col = Min(self.current_col, Len(Line(self, l)))]

_page_down(self) ==
    LET l == Min(Len(self.lines) - 1, self.current_line + self.height)
    IN  [self EXCEPT !.current_line = l,
                     !.scroll_pos = Min(Len(self.lines) - 1, self.scroll_pos + self.height),
                     !.current_col = Min(self.current_col, Len(Line(self, l)))]

\* A faulty variant of _insert_char: the cursor is not advanced past the new character.
_insert_char_stay(self, char) ==
    LET current == Line(self, self.current_line)
    IN  [self EXCEPT
            !.lines[self.current_line + 1] =
                Slice(current, 0, self.current_col) \o <<char>>
                    \o Slice(current, self.current_col, Len(current))]

_insert_char(self, char) ==
    LET current == Line(self, self.current_line)
    IN  [self EXCEPT
            !.lines[self.current_line + 1] =
                Slice(current, 0, self.current_col) \o <<char>>
                    \o Slice(current, self.current_col, Len(current)),
            !.current_col = self.current_col + 1]

_insert_newline(self) ==
    LET current == Line(self, self.current_line)
        n == Len(self.lines)
    IN  [self EXCEPT
            !.lines = SubSeq(self.lines, 1, self.current_line)
                        \o <<Slice(current, 0, self.current_col),
                             Slice(current, self.current_col, Len(current))>>
                        \o SubSeq(self.lines, self.current_line + 2, n),
            !.current_line = self.current_line + 1,
            !.current_col = 0]

\* A faulty variant of _backspace: on a join the column is taken after the lines are merged.
_backspace_late_col(self) ==
    IF self.current_col > 0
    THEN LET current == Line(self, self.current_line)
         IN  [self EXCEPT
                 !.lines[self.current_line + 1] =
                     Slice(current, 0, self.current_col - 1)
                         \o Slice(current, self.current_col, Len(current)),
                 !.current_col = self.current_col - 1]
    ELSE IF self.current_line > 0
    THEN LET prev == Line(self, self.current_line - 1)
             n == Len(self.lines)
         IN  [self EXCEPT
                 !.current_col = Len(prev \o Line(self, self.current_line)),
                 !.lines = SubSeq(self.lines, 1, self.current_line - 1)
                             \o <<prev \o Line(self, self.current_line)>>
                             \o SubSeq(self.lines, self.current_line + 2, n),
                 !.current_line = self.current_line - 1]
    ELSE self

\* A faulty variant of _backspace: joining two lines loses the lines after them.
_backspace_drop_rest(self) ==
    IF self.current_col > 0
    THEN LET current == Line(self, self.current_line)
         IN  [self EXCEPT
                 !.lines[self.current_line + 1] =
                     Slice(current, 0, self.current_col - 1)
                         \o Slice(current, self.current_col, Len(current)),
                 !.current_col = self.current_col - 1]
    ELSE IF self.current_line > 0
    THEN LET prev == Line(self, self.current_line - 1)
         IN  [self EXCEPT
                 !.current_col = Len(prev),
                 !.lines = SubSeq(self.lines, 1, self.current_line - 1)
                             \o <<prev \o Line(self, self.current_line)>>,
                 !.current_line = self.current_line - 1]
    ELSE self

_backspace(self) ==
    IF self.current_col > 0
    THEN LET current == Line(self, self.current_line)
         IN  [self EXCEPT
                 !.lines[self.current_line + 1] =
                     Slice(current, 0, self.current_col - 1)
                         \o Slice(current, self.current_col, Len(current)),
                 !.current_col = self.current_col - 1]
    ELSE IF self.current_line > 0
    THEN LET prev == Line(self, self.current_line - 1)
             n == Len(self.lines)
         IN  [self EXCEPT
                 !.current_col = Len(prev),
                 !.lines = SubSeq(self.lines, 1, self.current_line - 1)
                             \o <<prev \o Line(self, self.current_line)>>
                             \o SubSeq(self.lines, self.current_line + 2, n),
                 !.current_line = self.current_line - 1]
    ELSE self

\* A faulty variant of _delete: merging drops the text of the next line.
_delete_drop_next(self) ==
    LET current == Line(self, self.current_line)
        n == Len(self.lines)
    IN  IF self.current_col < Len(current)
        THEN [self EXCEPT
                 !.lines[self.current_line + 1] =
                     Slice(current, 0, self.current_col)
                         \o Slice(current, self.current_col + 1, Len(current))]
        ELSE IF self.current_line < n - 1
        THEN [self EXCEPT
                 !.lines = SubSeq(self.lines, 1, self.current_line)
                             \o <<current>>
                             \o SubSeq(self.lines, self.current_line + 3, n)]
        ELSE self

_delete(self) ==
    LET current == Line(self, self.current_line)
        n == Len(self.lines)
    IN  IF self.current_col < Len(current)
        THEN [self EXCEPT
                 !.lines[self.current_line + 1] =
                     Slice(current, 0, self.current_col)
                         \o Slice(current, self.current_col + 1, Len(current))]
        ELSE IF self.current_line < n - 1
        THEN [self EXCEPT
                 !.lines = SubSeq(self.lines, 1, self.current_line)
                             \o <<current \o Line(self, self.current_line + 1)>>
                             \o SubSeq(self.lines, self.current_line + 3, n)]
        ELSE self

\* A faulty variant of set_text: the cursor column is left where it was.
set_text_keep_col(self, text) ==
    _adjust_scroll([self EXCEPT !.lines = split(text), !.current_line = 0,
                                !.scroll_pos = 0])

\* set_text up to its closing _update_display, whose only state change is _adjust_scroll
set_text(self, text) ==
    _adjust_scroll([self EXCEPT !.lines = split(text), !.current_line = 0,
                                !.current_col = 0, !.scroll_pos = 0])

\* A faulty variant of edit_return: the joined text is returned without fix_encoding.
edit_return_raw(ls) == join(ls)

\* The value edit() returns after the loop is left by break.
edit_return(ls) == fix_encoding(join(ls))

(* ------------------------- the dispatch loop -------------------------- *)

\* The characters the key source types into the buffer.
TypedChars == {A_TILDE, INV_EXCL}

\* The key events the key source delivers to getch().
Keys ==
    {CTRL_G, TAB, ENTER, CTRL_V, DEL, KEY_DOWN, KEY_UP, KEY_LEFT, KEY_RIGHT,
     KEY_HOME, KEY_BACKSPACE, KEY_DC, KEY_NPAGE, KEY_PPAGE, KEY_END, KEY_RESIZE}
        \cup TypedChars

\* The branch of the if/elif chain of edit() that a key code takes.
branch(k) ==
    IF k = CTRL_G THEN "commit"
    ELSE IF k = KEY_UP THEN "up"
    ELSE IF k = KEY_DOWN THEN "down"
    ELSE IF k = KEY_LEFT THEN "left"
    ELSE IF k = KEY_RIGHT THEN "right"
    ELSE IF k = KEY_HOME THEN "home"
    ELSE IF k = KEY_END THEN "end"
    ELSE IF k = KEY_PPAGE THEN "page_up"
    ELSE IF k = KEY_NPAGE THEN "page_down"
    ELSE IF k = ENTER THEN "newline"
    ELSE IF k = DEL \/ k = KEY_BACKSPACE THEN "backspace"
    ELSE IF k = KEY_DC THEN "delete"
    ELSE IF k = KEY_RESIZE THEN "resize"
    ELSE IF k = CTRL_V THEN "paste"
    ELSE IF (32 <= k /\ k <= 126) \/ k > 127 THEN "char"
    ELSE "none"

\* _handle_resize resizes and redraws the curses windows; it assigns no field of self.
_handle_resize(self, rows) == self

\* Rows of self.win: height at construction, min(self.height, rows) after a resize.
WinRows == Min(height, avail_rows)

\* The strings set_text is called with.
Texts == UNION {[1..n -> TypedChars \cup {NL}] : n \in 0..MaxSetText}

Snapshot == [lines |-> lines, current_line |-> current_line, current_col |-> current_col]

NoHist == [ops |-> <<>>, before |-> [lines |-> <<>>, current_line |-> 0, current_col |-> 0]]

Becomes(self) ==
    /\ lines' = self.lines
    /\ current_line' = self.current_line
    /\ current_col' = self.current_col
    /\ scroll_pos' = self.scroll_pos
    /\ height' = self.height

\* getch() returns k and the chain takes branch b.
Read(k, b) == pc = "try" /\ branch(k) = b /\ ch' = k

\* A branch that runs an editing method and falls through to the next iteration.
Handled(k, b, self) ==
    /\ Read(k, b)
    /\ Becomes(self)
    /\ pc' = "redraw"
    /\ UNCHANGED <<avail_rows, instructions, outcome, result, interrupted, fx_arg, fx_ret>>

\* The state of a constructed ScrollableTextbox, before any call.
Fresh ==
    /\ lines = << <<>> >>
    /\ current_line = 0
    /\ current_col = 0
    /\ scroll_pos = 0
    /\ height \in 1..MaxHeight
    /\ avail_rows \in height..MaxAvail
    /\ instructions = "keys"
    /\ ch = 0
    /\ pc = "idle"
    /\ outcome = "none"
    /\ result = <<>>
    /\ interrupted = FALSE
    /\ hist = NoHist

Init == Fresh /\ fx_arg = <<>> /\ fx_ret = <<>>

SetText ==
    /\ pc = "idle"
    /\ \E text \in Texts : Becomes(set_text(Self, text))
    /\ outcome' = "none"
    /\ result' = <<>>
    /\ interrupted' = FALSE
    /\ hist' = NoHist
    /\ ch' = 0
    /\ UNCHANGED <<avail_rows, instructions, pc, fx_arg, fx_ret>>

\* edit() is called: win.clear(), win.refresh(), then the loop.
EditStart ==
    /\ pc = "idle"
    /\ pc' = "redraw"
    /\ outcome' = "none"
    /\ result' = <<>>
    /\ interrupted' = FALSE
    /\ hist' = NoHist
    /\ ch' = 0
    /\ UNCHANGED <<lines, current_line, current_col, scroll_pos, height,
                   avail_rows, instructions, fx_arg, fx_ret>>

\* self._update_display() at the top of the loop.
Redraw ==
    /\ pc = "redraw"
    /\ Becomes(_adjust_scroll(Self))
    /\ pc' = "try"
    /\ UNCHANGED <<avail_rows, instructions, ch, outcome, result, interrupted,
                   hist, fx_arg, fx_ret>>

KeyCommit ==
    /\ \E k \in Keys : Read(k, "commit")
    /\ pc' = "idle"
    /\ outcome' = "returned"
    /\ result' = edit_return(lines)
    /\ hist' = NoHist
    /\ UNCHANGED <<lines, current_line, current_col, scroll_pos, height,
                   avail_rows, instructions, interrupted, fx_arg, fx_ret>>

KeyUp == (\E k \in Keys : Handled(k, "up", _move_up(Self))) /\ hist' = NoHist

KeyDown == (\E k \in Keys : Handled(k, "down", _move_down(Self))) /\ hist' = NoHist

KeyLeft == (\E k \in Keys : Handled(k, "left", _move_left(Self))) /\ hist' = NoHist

KeyRight == (\E k \in Keys : Handled(k, "right", _move_right(Self))) /\ hist' = NoHist

KeyHome == (\E k \in Keys : Handled(k, "home", _move_home(Self))) /\ hist' = NoHist

KeyEnd == (\E k \in Keys : Handled(k, "end", _move_end(Self))) /\ hist' = NoHist

KeyPageUp == (\E k \in Keys : Handled(k, "page_up", _page_up(Self))) /\ hist' = NoHist

KeyPageDown == (\E k \in Keys : Handled(k, "page_down", _page_down(Self))) /\ hist' = NoHist

KeyEnter ==
    /\ Len(join(lines)) < MaxText
    /\ \E k \in Keys : Handled(k, "newline", _insert_newline(Self))
    /\ hist' = [ops |-> <<"newline">>, before |-> Snapshot]

KeyBackspace ==
    /\ \E k \in Keys : Handled(k, "backspace", _backspace(Self))
    /\ hist' = IF Len(hist.ops) = 1 THEN [hist EXCEPT !.ops = Append(@, "backspace")]
               ELSE NoHist

KeyDelete == (\E k \in Keys : Handled(k, "delete", _delete(Self))) /\ hist' = NoHist

\* The terminal now leaves rows rows, and KEY_RESIZE is read.
KeyResize ==
    /\ \E k \in Keys : \E rows \in 1..MaxAvail :
          /\ Read(k, "resize")
          /\ avail_rows' = rows
          /\ Becomes(_handle_resize(Self, rows))
    /\ instructions' = "keys"
    /\ pc' = "redraw"
    /\ hist' = NoHist
    /\ UNCHANGED <<outcome, result, interrupted, fx_arg, fx_ret>>

\* _handle_paste up to curses.napms(3000).
KeyPaste ==
    /\ \E k \in Keys : Read(k, "paste")
    /\ instructions' = "paste"
    /\ pc' = "napms"
    /\ hist' = NoHist
    /\ UNCHANGED <<lines, current_line, current_col, scroll_pos, height,
                   avail_rows, outcome, result, interrupted, fx_arg, fx_ret>>

\* A faulty variant of PasteDone: the paste notice is left in the status area.
PasteDone_notice_stays ==
    /\ pc = "napms"
    /\ pc' = "redraw"
    /\ UNCHANGED <<lines, current_line, current_col, scroll_pos, height, avail_rows,
                   instructions, ch, outcome, result, interrupted, hist, fx_arg, fx_ret>>

\* napms returns; _handle_paste restores the instructions and returns.
PasteDone ==
    /\ pc = "napms"
    /\ instructions' = "keys"
    /\ pc' = "redraw"
    /\ UNCHANGED <<lines, current_line, current_col, scroll_pos, height,
                   avail_rows, ch, outcome, result, interrupted, hist, fx_arg, fx_ret>>

KeyChar ==
    /\ Len(join(lines)) < MaxText
    /\ \E k \in Keys : Handled(k, "char", _insert_char(Self, k))
    /\ hist' = [ops |-> <<"char">>, before |-> Snapshot]

\* No branch of the chain matches: nothing runs.
KeyNone ==
    /\ \E k \in Keys : Read(k, "none")
    /\ pc' = "redraw"
    /\ hist' = NoHist
    /\ UNCHANGED <<lines, current_line, current_col, scroll_pos, height,
                   avail_rows, instructions, outcome, result, interrupted, fx_arg, fx_ret>>

\* KeyboardInterrupt raised inside the try block: the handler returns "".
InterruptInTry ==
    /\ pc \in {"try", "napms"}
    /\ pc' = "idle"
    /\ outcome' = "returned"
    /\ result' = <<>>
    /\ interrupted' = TRUE
    /\ hist' = NoHist
    /\ UNCHANGED <<lines, current_line, current_col, scroll_pos, height,
                   avail_rows, instructions, ch, fx_arg, fx_ret>>

\* KeyboardInterrupt raised in win.clear()/win.refresh() or in _update_display()
\* at the top of the loop, outside the try block: it leaves edit().
InterruptInRedraw ==
    /\ pc = "redraw"
    /\ pc' = "raised"
    /\ outcome' = "KeyboardInterrupt"
    /\ interrupted' = TRUE
    /\ hist' = NoHist
    /\ UNCHANGED <<lines, current_line, current_col, scroll_pos, height,
                   avail_rows, instructions, ch, result, fx_arg, fx_ret>>

Next ==
    \/ SetText \/ EditStart \/ Redraw
    \/ KeyCommit \/ KeyUp \/ KeyDown \/ KeyLeft \/ KeyRight \/ KeyHome \/ KeyEnd
    \/ KeyPageUp \/ KeyPageDown \/ KeyEnter \/ KeyBackspace \/ KeyDelete
    \/ KeyResize \/ KeyPaste \/ PasteDone \/ KeyChar \/ KeyNone
    \/ InterruptInTry \/ InterruptInRedraw

Spec == Init /\ [][Next]_vars

(* ---------------------- fix_encoding on its own ----------------------- *)

\* The characters that occur in a garbled sequence of the table.
GarbledChars ==
    UNION {{encoding_fixes[i][1][j] : j \in 1..Len(encoding_fixes[i][1])} :
              i \in 1..Len(encoding_fixes)}

\* The characters of the arguments: the garbled ones and a plain letter, "n".
FixAlphabet == GarbledChars \cup {110}

FixInputs == UNION {[1..n -> FixAlphabet] : n \in 0..MaxFixLen}

FixInit ==
    /\ Fresh /\ height = 1 /\ avail_rows = 1
    /\ fx_arg \in FixInputs
    /\ fx_ret = <<>>

\* fix_encoding(fx_arg)
FixCall ==
    /\ Len(fx_ret) = 0
    /\ fx_ret' = <<fix_encoding(fx_arg)>>
    /\ UNCHANGED <<edvars, fx_arg>>

\* fix_encoding applied to what fix_encoding returned
FixAgain ==
    /\ Len(fx_ret) = 1
    /\ fx_ret' = Append(fx_ret, fix_encoding(fx_ret[1]))
    /\ UNCHANGED <<edvars, fx_arg>>

FixNext == FixCall \/ FixAgain

SpecFix == FixInit /\ [][FixNext]_vars

(* ---------------------- parse_character_dialogue ---------------------- *)

LBRACKET == 91
RBRACKET == 93
SPACE == 32
\* Key codes outside the chain's comparisons: getch()'s no-input value and two keypad keys.
NO_INPUT == -1
KEY_F1 == 265
KEY_IC == 331
BACKSLASH == 92
AMPERSAND == 38

\* The characters str.strip() removes (those below 256).
Whitespace == (9..13) \cup (28..32) \cup {133, 160}

RECURSIVE lstrip(_)
lstrip(s) == IF Len(s) > 0 /\ s[1] \in Whitespace THEN lstrip(Tail(s)) ELSE s

RECURSIVE rstrip(_)
rstrip(s) ==
    IF Len(s) > 0 /\ s[Len(s)] \in Whitespace THEN rstrip(SubSeq(s, 1, Len(s) - 1)) ELSE s

\* s.strip()
strip(s) == rstrip(lstrip(s))

\* The index of the first ']' at or after i, 0 when there is none.
RECURSIVE find_close(_, _)
find_close(text, i) ==
    IF i > Len(text) THEN 0
    ELSE IF text[i] = RBRACKET THEN i
    ELSE find_close(text, i + 1)

\* The leftmost match of \[[^\]]+\] starting at or after i: <<first, last>>, <<0, 0>> when none.
RECURSIVE search_marker(_, _)
search_marker(text, i) ==
    IF i > Len(text) THEN <<0, 0>>
    ELSE IF /\ text[i] = LBRACKET
            /\ i + 1 <= Len(text)
            /\ text[i + 1] # RBRACKET
            /\ find_close(text, i + 2) # 0
    THEN <<i, find_close(text, i + 2)>>
    ELSE search_marker(text, i + 1)

\* re.split(r'(\[[^\]]+\])', text): text, marker, text, ..., marker, text
RECURSIVE re_split(_)
re_split(text) ==
    LET m == search_marker(text, 1)
    IN  IF m[1] = 0 THEN <<text>>
        ELSE <<SubSeq(text, 1, m[1] - 1), SubSeq(text, m[1], m[2])>>
                 \o re_split(SubSeq(text, m[2] + 1, Len(text)))

\* re.match(r'\[.+\]', part): '.' matches every character but the line break
is_character_name(part) ==
    /\ Len(part) >= 3
    /\ part[1] = LBRACKET
    /\ \E j \in 3..Len(part) :
          part[j] = RBRACKET /\ \A m \in 2..(j - 1) : part[m] # NL

\* The loop "for part in parts" from part i on; named is "current_character is not None".
RECURSIVE parse_parts(_, _, _)
parse_parts(parts, i, cur) ==
    IF i > Len(parts) THEN cur
    ELSE IF is_character_name(parts[i])
    THEN parse_parts(parts, i + 1,
            [named |-> TRUE, character |-> parts[i], dialogue |-> <<>>,
             result |-> IF cur.named
                        THEN Append(cur.result, <<cur.character, strip(cur.dialogue)>>)
                        ELSE cur.result])
    ELSE parse_parts(parts, i + 1, [cur EXCEPT !.dialogue = cur.dialogue \o parts[i]])

\* A faulty variant of parse_character_dialogue: the dialogue of the last character is not saved.
parse_character_dialogue_no_last(text) ==
    IF strip(text) = <<>> THEN <<>>
    ELSE LET split0 == re_split(fix_encoding(text))
             parts == IF Len(split0) > 0 /\ strip(split0[1]) = <<>>
                      THEN Tail(split0) ELSE split0
             end == parse_parts(parts, 1,
                        [named |-> FALSE, character |-> <<>>, dialogue |-> <<>>,
                         result |-> <<>>])
         IN  end.result

parse_character_dialogue(text) ==
    IF strip(text) = <<>> THEN <<>>
    ELSE LET split0 == re_split(fix_encoding(text))
             parts == IF Len(split0) > 0 /\ strip(split0[1]) = <<>>
                      THEN Tail(split0) ELSE split0
             end == parse_parts(parts, 1,
                        [named |-> FALSE, character |-> <<>>, dialogue |-> <<>>,
                         result |-> <<>>])
         IN  IF end.named
             THEN Append(end.result, <<end.character, strip(end.dialogue)>>)
             ELSE end.result


\* The characters of the texts: brackets, blank, line break, a plain letter "a", a garbled one.
ParseAlphabet == {LBRACKET, RBRACKET, SPACE, NL, 97, A_TILDE}

ParseInputs == UNION {[1..n -> ParseAlphabet] : n \in 0..MaxParseLen}

ParseInit ==
    /\ Fresh /\ height = 1 /\ avail_rows = 1
    /\ fx_arg \in ParseInputs
    /\ fx_ret = <<>>

\* parse_character_dialogue(fx_arg)
ParseCall ==
    /\ Len(fx_ret) = 0
    /\ fx_ret' = <<parse_character_dialogue(fx_arg)>>
    /\ UNCHANGED <<edvars, fx_arg>>

SpecParse == ParseInit /\ [][ParseCall]_vars


(* --------------------- escape_latex_special_chars --------------------- *)

\* The dict latex_special_chars in insertion order, each entry <<char, replacement>>:
\* & % $ # _ { } ~ ^ \ < > and their replacements \&, \%, \$, \#, \_, \{, \},
\* \textasciitilde{}, \textasciicircum{}, \textbackslash{}, \textless{}, \textgreater{}.
latex_special_chars ==
    <<
       << <<38>>, <<92, 38>> >>,
       << <<37>>, <<92, 37>> >>,
       << <<36>>, <<92, 36>> >>,
       << <<35>>, <<92, 35>> >>,
       << <<95>>, <<92, 95>> >>,
       << <<123>>, <<92, 123>> >>,
       << <<125>>, <<92, 125>> >>,
       << <<126>>, <<92, 116, 101, 120, 116, 97, 115, 99, 105, 105, 116, 105, 108, 100, 101, 123, 125>> >>,
       << <<94>>, <<92, 116, 101, 120, 116, 97, 115, 99, 105, 105, 99, 105, 114, 99, 117, 109, 123, 125>> >>,
       << <<92>>, <<92, 116, 101, 120, 116, 98, 97, 99, 107, 115, 108, 97, 115, 104, 123, 125>> >>,
       << <<60>>, <<92, 116, 101, 120, 116, 108, 101, 115, 115, 123, 125>> >>,
       << <<62>>, <<92, 116, 101, 120, 116, 103, 114, 101, 97, 116, 101, 114, 123, 125>> >> >>

\* The loop "for char, replacement in latex_special_chars.items()" from entry i on
\* (an empty text has nothing left to replace).
RECURSIVE apply_escapes(_, _)
apply_escapes(text, i) ==
    IF i > Len(latex_special_chars) \/ text = <<>> THEN text
    ELSE apply_escapes(replace(text, latex_special_chars[i][1], latex_special_chars[i][2]),
                       i + 1)

escape_latex_special_chars(text) == apply_escapes(text, 1)


(* ---------------------------- generate_latex --------------------------- *)

\* The document is the concatenation of fixed pieces of LaTeX and of the texts
\* put between them.  A fixed piece is kept whole under the name of its first
\* words; a text is kept character by character.
Lit(name) == [kind |-> "lit", lit |-> name, text |-> <<>>]
Txt(text) == [kind |-> "text", lit |-> "", text |-> text]

\* str.strip(chars): drops the leading and the trailing characters that are in chars.
RECURSIVE lstrip_chars(_, _)
lstrip_chars(s, chars) ==
    IF s # <<>> /\ Head(s) \in chars THEN lstrip_chars(Tail(s), chars) ELSE s

RECURSIVE rstrip_chars(_, _)
rstrip_chars(s, chars) ==
    IF s # <<>> /\ s[Len(s)] \in chars
    THEN rstrip_chars(SubSeq(s, 1, Len(s) - 1), chars)
    ELSE s

strip_chars(s, chars) == rstrip_chars(lstrip_chars(s, chars), chars)

\* left_char.strip('[]'), then fix_encoding, then escape_latex_special_chars.
char_formatted(char) ==
    escape_latex_special_chars(fix_encoding(strip_chars(char, {LBRACKET, RBRACKET})))

\* fix_encoding, then escape_latex_special_chars, then at the point of output
\* text.replace("\n", r"\\" + "\n").
text_formatted(text) ==
    replace(escape_latex_special_chars(fix_encoding(text)),
            <<NL>>, <<BACKSLASH, BACKSLASH, NL>>)

\* What one pass of the loop body appends for index i (1-based here) of count = num_dialogues.
dialogue_pair(left_dialogues, right_dialogues, i, count) ==
    << Lit("\\ParallelLText{%"),
       Lit("\\charname{"), Txt(char_formatted(left_dialogues[i][1])), Lit("}"),
       Txt(text_formatted(left_dialogues[i][2])),
       Lit("}"),
       Lit("\\ParallelRText{%"),
       Lit("\\charname{"), Txt(char_formatted(right_dialogues[i][1])), Lit("}"),
       Txt(text_formatted(right_dialogues[i][2])),
       Lit("}") >>
    \o (IF i < count THEN << Lit("\\ParallelPar") >> ELSE << >>)

\* The loop "for i in range(count)" from index i on.
RECURSIVE dialogue_pairs(_, _, _, _)
dialogue_pairs(left_dialogues, right_dialogues, i, count) ==
    IF i > count THEN << >>
    ELSE dialogue_pair(left_dialogues, right_dialogues, i, count)
         \o dialogue_pairs(left_dialogues, right_dialogues, i + 1, count)

\* A faulty variant of generate_latex: the loop misses the first pair.
generate_latex_skip_first(title, author, left_dialogues, right_dialogues) ==
    LET num_dialogues == Min(Len(left_dialogues), Len(right_dialogues))
    IN  << Lit("\\documentclass ... \\title{"), Txt(escape_latex_special_chars(title)),
           Lit("}\\author{"), Txt(escape_latex_special_chars(author)),
           Lit("}\\date{\\today} ... \\begin{Parallel}") >>
        \o dialogue_pairs(left_dialogues, right_dialogues, 2, num_dialogues)
        \o << Lit("\\end{Parallel} \\end{document}") >>

generate_latex(title, author, left_dialogues, right_dialogues) ==
    LET num_dialogues == Min(Len(left_dialogues), Len(right_dialogues))
    IN  << Lit("\\documentclass ... \\title{"), Txt(escape_latex_special_chars(title)),
           Lit("}\\author{"), Txt(escape_latex_special_chars(author)),
           Lit("}\\date{\\today} ... \\begin{Parallel}") >>
        \o dialogue_pairs(left_dialogues, right_dialogues, 1, num_dialogues)
        \o << Lit("\\end{Parallel} \\end{document}") >>

\* The dialogue lists the document is generated from: each entry a pair
\* <<character, text>> as parse_character_dialogue returns them.
DialogueEntries ==
    { << <<LBRACKET, 97, RBRACKET>>, <<97>> >>,
      << <<LBRACKET, AMPERSAND, RBRACKET>>, <<97, NL, AMPERSAND>> >> }

RECURSIVE SeqsUpTo(_, _)
SeqsUpTo(S, n) ==
    IF n = 0 THEN { << >> }
    ELSE LET shorter == SeqsUpTo(S, n - 1)
         IN  shorter \cup { Append(s, x) : s \in { t \in shorter : Len(t) = n - 1 }, x \in S }

DialogueLists == SeqsUpTo(DialogueEntries, MaxDialogues)

\* generate_latex called on its own: the argument is <<title, author,
\* left_dialogues, right_dialogues>>.
LatexInit ==
    /\ Fresh /\ height = 1 /\ avail_rows = 1
    /\ fx_arg \in { << <<97, AMPERSAND>>, <<97>>, l, r >> : l \in DialogueLists, r \in DialogueLists }
    /\ fx_ret = << >>

LatexCall ==
    /\ fx_ret = << >>
    /\ fx_ret' = << generate_latex(fx_arg[1], fx_arg[2], fx_arg[3], fx_arg[4]) >>
    /\ UNCHANGED <<edvars, fx_arg>>

SpecLatex == LatexInit /\ [][LatexCall]_vars


(* ------------- escape_latex_special_chars called on its own ------------ *)

\* The characters the table names, and one it does not.
EscapeAlphabet == { latex_special_chars[k][1][1] : k \in 1..Len(latex_special_chars) } \cup {97}

EscapeInputs == UNION { [1..n -> EscapeAlphabet] : n \in 0..MaxEscapeLen }

EscapeInit ==
    /\ Fresh /\ height = 1 /\ avail_rows = 1
    /\ fx_arg \in EscapeInputs
    /\ fx_ret = << >>

\* escape_latex_special_chars(fx_arg)
EscapeCall ==
    /\ Len(fx_ret) = 0
    /\ fx_ret' = << escape_latex_special_chars(fx_arg) >>
    /\ UNCHANGED <<edvars, fx_arg>>

SpecEscape == EscapeInit /\ [][EscapeCall]_vars


(* ------------------- set_text followed by a commit -------------------- *)

\* The states an editor can be in when set_text is called: any buffer, the
\* cursor anywhere in it, the viewport anywhere that shows the cursor line.
PriorEditors ==
    { [lines |-> split(t), current_line |-> l, current_col |-> c,
       scroll_pos |-> s, height |-> h] :
        t \in Texts, l \in 0..MaxSetText, c \in 0..MaxSetText,
        s \in 0..MaxSetText, h \in 1..MaxHeight }

ValidEditor(self) ==
    /\ self.current_line < Len(self.lines)
    /\ self.current_col <= Len(Line(self, self.current_line))
    /\ self.scroll_pos <= self.current_line
    /\ self.current_line < self.scroll_pos + self.height

\* None, the value of a call that returns nothing.
None == << >>

\* An editor in any such state, and the text fx_arg that set_text is about to be given.
SetTextInit ==
    /\ \E self \in PriorEditors :
         /\ ValidEditor(self)
         /\ lines = self.lines
         /\ current_line = self.current_line
         /\ current_col = self.current_col
         /\ scroll_pos = self.scroll_pos
         /\ height = self.height
    /\ avail_rows = height
    /\ instructions = "keys"
    /\ ch = 0
    /\ pc = "idle"
    /\ outcome = "none"
    /\ result = << >>
    /\ interrupted = FALSE
    /\ hist = NoHist
    /\ fx_arg \in Texts
    /\ fx_ret = << >>

\* set_text(fx_arg)
SetTextCall ==
    /\ pc = "idle"
    /\ fx_ret = << >>
    /\ Becomes(set_text(Self, fx_arg))
    /\ fx_ret' = << None >>
    /\ UNCHANGED <<avail_rows, instructions, ch, pc, outcome, result, interrupted,
                   hist, fx_arg>>

\* set_text, then edit() whose first key is the commit key.
SetTextNext ==
    \/ SetTextCall
    \/ fx_ret # << >> /\ EditStart
    \/ fx_ret # << >> /\ Redraw
    \/ fx_ret # << >> /\ KeyCommit

SpecSetText == SetTextInit /\ [][SetTextNext]_vars


(* ------------------ one key dispatched from any state ------------------ *)

\* The buffers a key is dispatched on.
KeyTexts == UNION { [1..n -> {A_TILDE, NL}] : n \in 0..MaxKeyText }

\* The editors waiting in getch(): any buffer, the cursor anywhere in it, the
\* viewport as the redraw before getch() can have left it.
WaitingEditors ==
    { self \in { [lines |-> split(t), current_line |-> l, current_col |-> c,
                  scroll_pos |-> s, height |-> h] :
                   t \in KeyTexts, l \in 0..MaxKeyText, c \in 0..MaxKeyText,
                   s \in 0..MaxKeyText, h \in 1..MaxHeight } :
        ValidEditor(self) }

\* edit() is waiting in getch(); fx_arg keeps the editor as it is at that moment.
KeyInit ==
    /\ fx_arg \in WaitingEditors
    /\ lines = fx_arg.lines
    /\ current_line = fx_arg.current_line
    /\ current_col = fx_arg.current_col
    /\ scroll_pos = fx_arg.scroll_pos
    /\ height = fx_arg.height
    /\ avail_rows = height
    /\ instructions = "keys"
    /\ ch = 0
    /\ pc = "try"
    /\ outcome = "none"
    /\ result = << >>
    /\ interrupted = FALSE
    /\ hist = NoHist
    /\ fx_ret = << >>

\* One key is read and handled, and the loop redraws; after the paste trigger
\* the pasted characters follow as keys of their own.
KeyNext ==
    \/ ch = 0 /\ KeyBackspace
    \/ ch = 0 /\ KeyDelete
    \/ ch = 0 /\ KeyUp
    \/ ch = 0 /\ KeyDown
    \/ ch = 0 /\ KeyPageUp
    \/ ch = 0 /\ KeyPageDown
    \/ ch = 0 /\ KeyPaste
    \/ PasteDone
    \/ ch = CTRL_V /\ KeyChar
    \/ ch = CTRL_V /\ KeyEnter
    \/ Redraw

SpecKey == KeyInit /\ [][KeyNext]_vars


(* --------------- any one key dispatched from any state ----------------- *)

\* Key events that are none of the keys the chain compares with: no input,
\* a control code below 32, a function key and the insert key.
OtherKeys == {NO_INPUT, TAB, KEY_F1, KEY_IC}

\* Such a key falls through the whole chain: nothing runs.
KeyOtherNone ==
    /\ \E k \in OtherKeys : Read(k, "none")
    /\ pc' = "redraw"
    /\ hist' = NoHist
    /\ UNCHANGED <<lines, current_line, current_col, scroll_pos, height,
                   avail_rows, instructions, outcome, result, interrupted, fx_arg, fx_ret>>

\* Such a key is taken by the last branch, "32 <= ch <= 126 or ch > 127":
\* chr(ch) is inserted.
KeyOtherChar ==
    /\ \E k \in OtherKeys : Handled(k, "char", _insert_char(Self, k))
    /\ hist' = [ops |-> <<"char">>, before |-> Snapshot]

\* One key of any kind is read and handled, and the loop redraws.
AnyKeyNext ==
    \/ ch = 0 /\ KeyChar
    \/ ch = 0 /\ KeyEnter
    \/ ch = 0 /\ KeyBackspace
    \/ ch = 0 /\ KeyDelete
    \/ ch = 0 /\ KeyLeft
    \/ ch = 0 /\ KeyRight
    \/ ch = 0 /\ KeyUp
    \/ ch = 0 /\ KeyDown
    \/ ch = 0 /\ KeyHome
    \/ ch = 0 /\ KeyEnd
    \/ ch = 0 /\ KeyPageUp
    \/ ch = 0 /\ KeyPageDown
    \/ ch = 0 /\ KeyOtherNone
    \/ ch = 0 /\ KeyOtherChar
    \/ Redraw

SpecAnyKey == KeyInit /\ [][AnyKeyNext]_vars

(* ------------------------------ claims -------------------------------- *)

\* C1: in every state the editor reaches from a fresh editor or from set_text,
\* by any sequence of keys, the buffer has at least one line, current_line is
\* an index of lines, and current_col lies in [0, length of the current line].
C1_BufferInvariant ==
    /\ Len(lines) >= 1
    /\ current_line \in 0..(Len(lines) - 1)
    /\ current_col \in 0..Len(lines[current_line + 1])

\* C1's case: keys have been dispatched, the last a backspace that left the
\* cursor inside a buffer of several lines, past column 0 of a line past line 0.
C1_Witness ==
    /\ pc = "try"
    /\ branch(ch) = "backspace"
    /\ Len(lines) >= 2
    /\ current_line > 0
    /\ current_col > 0

\* C2: with a viewport height of at least 1, once the scroll adjustment that
\* follows an event has run, scroll_pos <= current_line <= scroll_pos + height - 1;
\* and scroll_pos >= 0 in every state.
C2_CursorVisible ==
    /\ scroll_pos >= 0
    /\ (height >= 1 /\ pc \in {"try", "napms", "idle"}) =>
          /\ scroll_pos <= current_line
          /\ current_line <= scroll_pos + height - 1

\* C2's case: a page-down has been dispatched and redrawn in a buffer longer
\* than the viewport, and the view has scrolled.
C2_Witness ==
    /\ pc = "try"
    /\ branch(ch) = "page_down"
    /\ Len(lines) > height
    /\ scroll_pos > 0
    /\ current_line = scroll_pos + height - 1

\* C3: a character key followed immediately by backspace leaves the lines and
\* the cursor as they were before the pair.
C3_InsertThenBackspace ==
    hist.ops = <<"char", "backspace">> =>
        /\ lines = hist.before.lines
        /\ current_line = hist.before.current_line
        /\ current_col = hist.before.current_col

\* C3's case: the pair has been dispatched in the middle of a line.
C3_Witness ==
    /\ hist.ops = <<"char", "backspace">>
    /\ current_col > 0
    /\ current_col < Len(lines[current_line + 1])

\* C4: Enter followed immediately by backspace (then at column 0 of the new
\* line) restores the lines, the line count and the cursor.
C4_NewlineThenBackspace ==
    hist.ops = <<"newline", "backspace">> =>
        /\ lines = hist.before.lines
        /\ Len(lines) = Len(hist.before.lines)
        /\ current_line = hist.before.current_line
        /\ current_col = hist.before.current_col

\* C4's case: the pair has been dispatched in the middle of a line.
C4_Witness ==
    /\ hist.ops = <<"newline", "backspace">>
    /\ current_col > 0
    /\ current_col < Len(lines[current_line + 1])

\* C5 (as claimed): fix_encoding(fix_encoding(s)) = fix_encoding(s) for every s.
C5_Idempotent == Len(fx_ret) = 2 => fx_ret[2] = fx_ret[1]

\* C6 (as claimed): for every entry g -> c of encoding_fixes and every suffix t
\* free of garbled characters, fix_encoding(g + t) = c + t.
C6_EveryEntryApplies ==
    Len(fx_ret) >= 1 =>
        \A i \in 1..Len(encoding_fixes) :
            LET g == encoding_fixes[i][1]
                c == encoding_fixes[i][2]
                t == SubSeq(fx_arg, Len(g) + 1, Len(fx_arg))
            IN  ( /\ Len(fx_arg) >= Len(g)
                  /\ SubSeq(fx_arg, 1, Len(g)) = g
                  /\ \A j \in 1..Len(t) : t[j] \notin GarbledChars )
                => fx_ret[1] = c \o t

\* C7 (as claimed): a KeyboardInterrupt delivered at any point of edit() makes
\* edit() return the empty string; it never leaves edit() as an exception.
C7_InterruptReturnsEmpty ==
    interrupted => (pc = "idle" /\ outcome = "returned" /\ result = <<>>)

\* C8: reading Ctrl+G ends the loop with the buffer and cursor untouched, and
\* edit() returns fix_encoding of the lines joined by newline.
C8_CommitReturnsNormalizedText ==
    [][ (pc = "try" /\ ch' = CTRL_G /\ ~interrupted') =>
            /\ pc' = "idle"
            /\ outcome' = "returned"
            /\ result' = fix_encoding(join(lines))
            /\ UNCHANGED <<lines, current_line, current_col, scroll_pos, height>> ]_vars

\* C8's case: Ctrl+G has been read after edits that left several lines, and
\* the normalizer changed the joined text.
C8_Witness ==
    /\ pc = "idle"
    /\ ch = CTRL_G
    /\ outcome = "returned"
    /\ ~interrupted
    /\ Len(lines) >= 2
    /\ result # join(lines)

\* The key k is dispatched with the cursor at the buffer boundary its operation runs into.
AtBoundary(k) ==
    LET b == branch(k)
        last == Len(lines) - 1
        atStart == current_line = 0 /\ current_col = 0
        atEnd == current_line = last /\ current_col = Len(lines[current_line + 1])
    IN  \/ b \in {"backspace", "left"} /\ atStart
        \/ b \in {"delete", "right"} /\ atEnd
        \/ b \in {"up", "page_up"} /\ current_line = 0
        \/ b \in {"down", "page_down"} /\ current_line = last

\* C9 (as claimed): an operation dispatched at its buffer boundary leaves the
\* lines, the cursor and the first visible line as the previous redraw left them.
C9_BoundaryNoOp ==
    [][ (pc = "try" /\ pc' = "redraw" /\ AtBoundary(ch')) =>
            UNCHANGED <<lines, current_line, current_col, scroll_pos>> ]_vars

\* C10 (as claimed): once a resize has been handled and redrawn, the stored
\* height is the space now available to the window (the rows of the resized
\* window, at least 1) and the cursor line is inside the resized window.
C10_ResizeSetsHeight ==
    (pc = "try" /\ branch(ch) = "resize") =>
        /\ height = Max(1, WinRows)
        /\ scroll_pos <= current_line
        /\ current_line <= scroll_pos + WinRows - 1

\* The index of the first c in s, Len(s) + 1 when there is none.
RECURSIVE first_index(_, _)
first_index(s, c) ==
    IF Len(s) = 0 \/ s[1] = c THEN 1 ELSE 1 + first_index(Tail(s), c)

Contains(s, c) == \E i \in 1..Len(s) : s[i] = c

\* The reading of text as segments [Label]text, labels and texts free of
\* brackets: ok says whether it is one, segs lists its <<Label, text>> pairs.
RECURSIVE segments(_)
segments(text) ==
    IF text = <<>> THEN [ok |-> TRUE, segs |-> <<>>]
    ELSE LET close == first_index(text, RBRACKET)
             label == SubSeq(text, 2, close - 1)
             rest == SubSeq(text, close + 1, Len(text))
             open == first_index(rest, LBRACKET)
             body == SubSeq(rest, 1, open - 1)
             more == segments(SubSeq(rest, open, Len(rest)))
         IN  IF /\ text[1] = LBRACKET
                /\ close <= Len(text)
                /\ ~Contains(label, LBRACKET)
                /\ ~Contains(body, RBRACKET)
                /\ more.ok
             THEN [ok |-> TRUE, segs |-> <<<<label, body>>>> \o more.segs]
             ELSE [ok |-> FALSE, segs |-> <<>>]

\* Every label of the segments is non-empty and has no line break.
PlainLabels(segs) ==
    \A i \in 1..Len(segs) : Len(segs[i][1]) > 0 /\ ~Contains(segs[i][1], NL)

IsText(piece) == piece.kind = "text"

\* The texts put into a document, in the order they appear in it.
TextsOf(doc) == SelectSeq(doc, IsText)

\* How many times the fixed piece named name appears in a document.
Count(doc, name) == Cardinality({ k \in 1..Len(doc) : doc[k] = Lit(name) })

\* C12: the generated document holds exactly min(len(left), len(right)) left
\* blocks and as many right blocks, and after the title and the author its
\* i-th group of four texts is the name and the text of left[i] followed by the
\* name and the text of right[i]; no other text is in it, so nothing of the
\* longer list past that index is emitted.
C12_PairsUpToShorter ==
    fx_ret # << >> =>
        LET doc == fx_ret[1]
            left == fx_arg[3]
            right == fx_arg[4]
            n == Min(Len(left), Len(right))
            texts == TextsOf(doc)
        IN  /\ Count(doc, "\\ParallelLText{%") = n
            /\ Count(doc, "\\ParallelRText{%") = n
            /\ Len(texts) = 2 + 4 * n
            /\ \A i \in 1..n :
                 /\ texts[4 * i - 1].text = char_formatted(left[i][1])
                 /\ texts[4 * i].text = text_formatted(left[i][2])
                 /\ texts[4 * i + 1].text = char_formatted(right[i][1])
                 /\ texts[4 * i + 2].text = text_formatted(right[i][2])

\* A document has been generated from 3 entries on the left and 5 on the right
\* whose first entries differ.
C12_Witness ==
    /\ fx_ret # << >>
    /\ Len(fx_arg[3]) = 3
    /\ Len(fx_arg[4]) = 5
    /\ fx_arg[3][1] # fx_arg[4][1]
    /\ Count(fx_ret[1], "\\ParallelLText{%") = 3


\* What the table gives for one character: its replacement, or the character
\* itself when the table does not name it.
escaped_char(c) ==
    IF \E k \in 1..Len(latex_special_chars) : latex_special_chars[k][1] = <<c>>
    THEN latex_special_chars[CHOOSE k \in 1..Len(latex_special_chars) :
                               latex_special_chars[k][1] = <<c>>][2]
    ELSE <<c>>

\* The character-by-character mapping of a text through the table.
RECURSIVE char_by_char(_)
char_by_char(text) ==
    IF text = << >> THEN << >>
    ELSE escaped_char(Head(text)) \o char_by_char(Tail(text))

\* C13: what escape_latex_special_chars returns is the character-by-character
\* mapping of its argument through the table: every reserved character is
\* replaced by its replacement text and no replacement text is escaped again.
C13_CharByChar ==
    fx_ret # << >> => fx_ret[1] = char_by_char(fx_arg)


\* C14: once set_text(s) has been called, whatever the editor held before, the
\* lines are s split on newline (at least one line, a single empty line for
\* the empty text) and the cursor line, the cursor column and the first
\* visible line are 0; edit() left by the commit key right after returns
\* fix_encoding(s).
C14_SetTextResets ==
    fx_ret # << >> =>
        /\ lines = split(fx_arg)
        /\ Len(lines) >= 1
        /\ (fx_arg = << >> => lines = << << >> >>)
        /\ current_line = 0
        /\ current_col = 0
        /\ scroll_pos = 0
        /\ (outcome = "returned" => result = fix_encoding(fx_arg))

\* set_text was given a text of two lines and the commit right after it has returned.
C14_Witness ==
    /\ fx_ret # << >>
    /\ outcome = "returned"
    /\ ch = CTRL_G
    /\ Len(lines) = 2
    /\ result = fx_arg


\* The key read in getch() took branch b and its handler has run.
Dispatched(b) == ch # 0 /\ branch(ch) = b

\* Line i (numbered from 0, as in the source) of the editor before the key.
Before(i) == fx_arg.lines[i + 1]

\* C15: Backspace with the cursor at column 0 of a line i > 0 makes line i-1
\* the old line i-1 followed by the old line i, leaves one line fewer and every
\* other line unchanged and in order, and puts the cursor on line i-1 at the
\* column that was the length of line i-1.
C15_BackspaceJoins ==
    (Dispatched("backspace") /\ fx_arg.current_col = 0 /\ fx_arg.current_line > 0) =>
        LET i == fx_arg.current_line
            n == Len(fx_arg.lines)
        IN  /\ Len(lines) = n - 1
            /\ lines[i] = Before(i - 1) \o Before(i)
            /\ \A j \in 0..(i - 2) : lines[j + 1] = Before(j)
            /\ \A j \in i..(n - 2) : lines[j + 1] = Before(j + 1)
            /\ current_line = i - 1
            /\ current_col = Len(Before(i - 1))

\* Backspace has joined two non-empty lines that had a line before them.
C15_Witness ==
    /\ Dispatched("backspace")
    /\ fx_arg.current_col = 0
    /\ fx_arg.current_line = 2
    /\ Len(fx_arg.lines) >= 3
    /\ Len(lines) = Len(fx_arg.lines) - 1
    /\ current_col > 0
    /\ Len(lines[current_line + 1]) > current_col

\* C16: forward-delete with the cursor at the end of a line i that is not the
\* last makes line i the old line i followed by the old line i+1, leaves one
\* line fewer and every other line unchanged and in order, and does not move
\* the cursor.
C16_DeleteMerges ==
    (/\ Dispatched("delete")
     /\ fx_arg.current_col = Len(Before(fx_arg.current_line))
     /\ fx_arg.current_line < Len(fx_arg.lines) - 1) =>
        LET i == fx_arg.current_line
            n == Len(fx_arg.lines)
        IN  /\ Len(lines) = n - 1
            /\ lines[i + 1] = Before(i) \o Before(i + 1)
            /\ \A j \in 0..(i - 1) : lines[j + 1] = Before(j)
            /\ \A j \in (i + 1)..(n - 2) : lines[j + 1] = Before(j + 1)
            /\ current_line = i
            /\ current_col = fx_arg.current_col

\* Forward-delete has merged a non-empty line into the non-empty line before
\* it, in a buffer with a line before the two.
C16_Witness ==
    /\ Dispatched("delete")
    /\ fx_arg.current_line = 1
    /\ fx_arg.current_col = Len(Before(1))
    /\ fx_arg.current_col > 0
    /\ Len(fx_arg.lines) >= 3
    /\ Len(lines) = Len(fx_arg.lines) - 1
    /\ Len(lines[2]) > current_col


\* The editor as the key found it.
Pre == fx_arg

\* C17: cursor-up from a line other than 0 and cursor-down from a line other
\* than the last move the cursor line by exactly one, set the column to the
\* smaller of the previous column and the length of the destination line, and
\* leave the buffer unchanged.
C17_UpDownByOne ==
    /\ (Dispatched("up") /\ Pre.current_line > 0) =>
          /\ current_line = Pre.current_line - 1
          /\ current_col = Min(Pre.current_col, Len(Before(Pre.current_line - 1)))
          /\ lines = Pre.lines
    /\ (Dispatched("down") /\ Pre.current_line < Len(Pre.lines) - 1) =>
          /\ current_line = Pre.current_line + 1
          /\ current_col = Min(Pre.current_col, Len(Before(Pre.current_line + 1)))
          /\ lines = Pre.lines

\* Cursor-up has gone from a column inside a longer line to the end of a
\* shorter, non-empty line.
C17_Witness ==
    /\ Dispatched("up")
    /\ Pre.current_line > 0
    /\ current_line = Pre.current_line - 1
    /\ current_col > 0
    /\ current_col < Pre.current_col

\* C18: page-up sets the cursor line to max(0, line - height) and page-down to
\* min(line count - 1, line + height); the column becomes the smaller of the
\* previous column and the length of the destination line; the buffer is
\* unchanged; and once the loop has redrawn, the cursor line is in the viewport.
C18_PageMoves ==
    /\ Dispatched("page_up") =>
          LET l == Max(0, Pre.current_line - Pre.height)
          IN  /\ current_line = l
              /\ current_col = Min(Pre.current_col, Len(Before(l)))
              /\ lines = Pre.lines
    /\ Dispatched("page_down") =>
          LET l == Min(Len(Pre.lines) - 1, Pre.current_line + Pre.height)
          IN  /\ current_line = l
              /\ current_col = Min(Pre.current_col, Len(Before(l)))
              /\ lines = Pre.lines
    /\ (Dispatched("page_up") \/ Dispatched("page_down")) /\ pc = "try" =>
          /\ scroll_pos <= current_line
          /\ current_line < scroll_pos + height

\* Page-down has moved the cursor a full page of more than one line, short of
\* the last line, and the loop has redrawn.
C18_Witness ==
    /\ Dispatched("page_down")
    /\ pc = "try"
    /\ Pre.height > 1
    /\ current_line = Pre.current_line + Pre.height
    /\ current_line < Len(lines) - 1


\* The first visible line the if/elif rule of _adjust_scroll gives for cursor
\* line l, first visible line s and h visible rows.
ScrollRule(l, s, h) ==
    IF l < s THEN l
    ELSE IF l >= s + h THEN l - h + 1
    ELSE s

\* C19: the scroll adjustment run by a redraw sets the first visible line by
\* exactly the rule (the cursor line if it is above the viewport, cursor line
\* - height + 1 if it is at or below the viewport's end, unchanged otherwise),
\* changes neither the lines nor the cursor, and applied again to its own
\* result changes nothing.
C19_AdjustScrollRule ==
    [][ (pc = "redraw" /\ pc' = "try") =>
            /\ scroll_pos' = ScrollRule(current_line, scroll_pos, height)
            /\ UNCHANGED <<lines, current_line, current_col, height>>
            /\ ScrollRule(current_line', scroll_pos', height') = scroll_pos' ]_vars

\* A redraw has scrolled down after cursor-down left the bottom of a viewport
\* of more than one row.
C19_Witness ==
    /\ Dispatched("down")
    /\ pc = "try"
    /\ height > 1
    /\ current_line = Pre.scroll_pos + height
    /\ scroll_pos = Pre.scroll_pos + 1


\* C20: the paste trigger (Ctrl+V) leaves the lines, the cursor and the first
\* visible line unchanged; the paste notice is in the status area during the
\* pause and the normal instructions are back whenever the loop reads the next
\* event; the characters pasted after it go through the loop as ordinary
\* keys: a character is inserted at the cursor, a line break splits the line.
C20_PasteTrigger ==
    /\ Dispatched("paste") =>
          /\ lines = Pre.lines
          /\ current_line = Pre.current_line
          /\ current_col = Pre.current_col
          /\ scroll_pos = Pre.scroll_pos
          /\ (pc = "napms" => instructions = "paste")
    /\ pc = "try" => instructions = "keys"
    /\ Dispatched("char") =>
          /\ lines = _insert_char(Pre, ch).lines
          /\ current_line = Pre.current_line
          /\ current_col = Pre.current_col + 1
    /\ Dispatched("newline") =>
          /\ lines = _insert_newline(Pre).lines
          /\ current_line = Pre.current_line + 1
          /\ current_col = 0

\* The paste trigger has been handled in a scrolled buffer of several lines,
\* the pause is over and the loop is about to read the next event.
C20_Witness ==
    /\ ch = CTRL_V
    /\ pc = "try"
    /\ instructions = "keys"
    /\ Len(lines) >= 2
    /\ scroll_pos > 0
    /\ current_col > 0


\* The offset in the newline-joined text of column c of line l (from 0): the
\* lengths of the lines before l, each plus 1, plus c.
RECURSIVE Offset(_, _, _)
Offset(ls, l, c) ==
    IF l = 0 THEN c ELSE Len(ls[1]) + 1 + Offset(Tail(ls), l - 1, c)

\* s with x put in before its character at offset o (from 0).
InsertAt(s, o, x) == SubSeq(s, 1, o) \o <<x>> \o SubSeq(s, o + 1, Len(s))

\* s without its character at offset o (from 0).
RemoveAt(s, o) == SubSeq(s, 1, o) \o SubSeq(s, o + 2, Len(s))

\* C21: seen as the flat text join(lines) with the cursor at Offset, the
\* editor does what a flat string with one cursor does: a character and a
\* line break are inserted at the offset, which advances by 1; backspace
\* removes the character before the offset (nothing at offset 0);
\* forward-delete removes the character at the offset (nothing at the end);
\* left and right move the offset by 1 within [0, length]; every other
\* movement leaves the flat text unchanged.
C21_FlatString ==
    LET t == join(Pre.lines)
        o == Offset(Pre.lines, Pre.current_line, Pre.current_col)
        t2 == join(lines)
        o2 == Offset(lines, current_line, current_col)
    IN  /\ Dispatched("char") => t2 = InsertAt(t, o, ch) /\ o2 = o + 1
        /\ Dispatched("newline") => t2 = InsertAt(t, o, NL) /\ o2 = o + 1
        /\ Dispatched("backspace") =>
              IF o = 0 THEN t2 = t /\ o2 = 0
              ELSE t2 = RemoveAt(t, o - 1) /\ o2 = o - 1
        /\ Dispatched("delete") =>
              IF o = Len(t) THEN t2 = t /\ o2 = o
              ELSE t2 = RemoveAt(t, o) /\ o2 = o
        /\ Dispatched("left") => t2 = t /\ o2 = Max(0, o - 1)
        /\ Dispatched("right") => t2 = t /\ o2 = Min(Len(t), o + 1)
        /\ (\E b \in {"up", "down", "home", "end", "page_up", "page_down"} : Dispatched(b))
              => t2 = t

\* Cursor-left has crossed from column 0 of a line to the end of the
\* non-empty line before it.
C21_Witness ==
    /\ Dispatched("left")
    /\ Pre.current_col = 0
    /\ Pre.current_line > 0
    /\ current_line = Pre.current_line - 1
    /\ current_col > 0


\* C22 (as claimed): a key that is none of the keys the chain names (no
\* input, a control code below 32, a function key, the insert key) leaves the
\* lines and the cursor as they were and does not end edit().
C22_OtherKeysIgnored ==
    ch \in OtherKeys =>
        /\ lines = Pre.lines
        /\ current_line = Pre.current_line
        /\ current_col = Pre.current_col
        /\ pc \in {"redraw", "try"}
        /\ outcome = "none"


\* The [Label] markers of a text, in order: the matches of '[' + one or more
\* characters other than ']' + ']', found from left to right.
RECURSIVE Markers(_)
Markers(text) ==
    LET m == search_marker(text, 1)
    IN  IF m[1] = 0 THEN << >>
        ELSE <<SubSeq(text, m[1], m[2])>> \o Markers(SubSeq(text, m[2] + 1, Len(text)))

\* C23 (as claimed): parse_character_dialogue returns as many entries as the
\* text, as fix_encoding leaves it, has [Label] markers, and the label of the
\* i-th entry is the i-th marker: text that is not a marker gives no entry and
\* no label.
C23_OneEntryPerMarker ==
    fx_ret # << >> =>
        LET markers == Markers(fix_encoding(fx_arg))
            entries == fx_ret[1]
        IN  /\ Len(entries) = Len(markers)
            /\ \A i \in 1..Len(entries) : entries[i][1] = markers[i]

====
